---- MODULE Spec2Model ----
(***************************************************************************)
(* Model of the chess rules engine ChessGameState                          *)
(* (src/gameLogic/GameState.ts): the board, the raw move generator, the    *)
(* legality filter, the check / checkmate detector and the per-variant     *)
(* turn state machine (classic, coinToss, dice).                           *)
(*                                                                         *)
(* The engine's private fields are the VARIABLES.  The methods are         *)
(* operators over a record `this` holding the fields a method reads; the   *)
(* public methods are the actions.  A JavaScript exception (the RangeError *)
(* of an unbounded recursion, the Error of findKingPosition) is the value  *)
(* "throw" / div = TRUE of the operator that raises it, propagated to the  *)
(* first try/catch of the source.                                          *)
(***************************************************************************)
EXTENDS Integers, FiniteSets, Sequences, TLC

VARIABLES board, currentTurn, selectedPiece, validMoves, blockedMoves,
          isInCheck, isCheckmate, lastMove, gameType, remainingMoves,
          waitingForCoinToss, waitingForDiceRoll, lastDiceRoll, lastCoinToss,
          lastCall, played, moved

engine == <<board, currentTurn, selectedPiece, validMoves, blockedMoves,
            isInCheck, isCheckmate, lastMove, gameType, remainingMoves,
            waitingForCoinToss, waitingForDiceRoll, lastDiceRoll, lastCoinToss>>

vars == <<board, currentTurn, selectedPiece, validMoves, blockedMoves,
          isInCheck, isCheckmate, lastMove, gameType, remainingMoves,
          waitingForCoinToss, waitingForDiceRoll, lastDiceRoll, lastCoinToss,
          lastCall, played, moved>>

-----------------------------------------------------------------------------
(* Data model *)

WHITE == "white"
BLACK == "black"
None == "none"

PAWN == "pawn"
ROOK == "rook"
KNIGHT == "knight"
BISHOP == "bishop"
QUEEN == "queen"
KING == "king"

Rows == 0..7

Pos(r, c) == [row |-> r, col |-> c]

AllPos == {Pos(r, c) : r \in Rows, c \in Rows}

\* null for a Position (selectedPiece: Position | null)
NoPos == [row |-> -1, col |-> -1]

\* null for a Piece (Square.piece: Piece | null)
NoPiece == [type |-> None, color |-> None, hasMoved |-> FALSE]

Pc(t, c, m) == [type |-> t, color |-> c, hasMoved |-> m]

\* null for lastMove
NoMove == [from |-> NoPos, to |-> NoPos, piece |-> NoPiece]

Opponent(color) == IF color = WHITE THEN BLACK ELSE WHITE

HomeRow(color) == IF color = WHITE THEN 7 ELSE 0

BackRank == <<ROOK, KNIGHT, BISHOP, QUEEN, KING, BISHOP, KNIGHT, ROOK>>

createInitialBoard ==
  [r \in Rows |-> [c \in Rows |->
     IF r = 1 THEN Pc(PAWN, BLACK, FALSE)
     ELSE IF r = 6 THEN Pc(PAWN, WHITE, FALSE)
     ELSE IF r = 0 THEN Pc(BackRank[c + 1], BLACK, FALSE)
     ELSE IF r = 7 THEN Pc(BackRank[c + 1], WHITE, FALSE)
     ELSE NoPiece]]

isValidPosition(row, col) == row >= 0 /\ row < 8 /\ col >= 0 /\ col < 8

At(b, p) == b[p.row][p.col]

\* the simulated relocation of getValidMovesForPiece on a clone of the board
cloneBoardMove(b, from, to) ==
  [r \in Rows |-> [c \in Rows |->
     IF r = to.row /\ c = to.col THEN b[from.row][from.col]
     ELSE IF r = from.row /\ c = from.col THEN NoPiece
     ELSE b[r][c]]]

Idx(p) == p.row * 8 + p.col

\* first king of the color in row-major order; NoPos stands for the thrown Error
findKingPosition(color, b) ==
  LET ks == {p \in AllPos : At(b, p).type = KING /\ At(b, p).color = color}
  IN IF ks = {} THEN NoPos ELSE CHOOSE x \in ks : \A y \in ks : Idx(x) <= Idx(y)

-----------------------------------------------------------------------------
(* Raw move generator.  `this` carries the live fields board, isInCheck and *)
(* lastMove; b is the board the geometry is computed on (live or scratch).  *)

isEnPassantPossible(this, from, to) ==
  LET piece == At(this.board, from)
      lm == this.lastMove
  IN /\ piece # NoPiece
     /\ piece.type = PAWN
     /\ (to.col - from.col = 1 \/ to.col - from.col = -1)
     /\ lm # NoMove
     /\ IF piece.color = WHITE
        THEN /\ lm.piece.type = PAWN
             /\ lm.piece.color = BLACK
             /\ lm.from.row = 1
             /\ lm.to.row = 3
             /\ lm.to.col = to.col
             /\ from.row = 3
             /\ to.row = 2
        ELSE /\ lm.piece.type = PAWN
             /\ lm.piece.color = WHITE
             /\ lm.from.row = 6
             /\ lm.to.row = 4
             /\ lm.to.col = to.col
             /\ from.row = 4
             /\ to.row = 5

(* A move list of the source is modelled by its membership predicate      *)
(* (inXxx(..., t): the list computed by Xxx contains the square t) and, where *)
(* the whole list is needed, by the set of the squares that satisfy it.     *)

inPawnMovesRaw(this, position, b, t) ==
  LET piece == At(b, position)
      direction == IF piece.color = WHITE THEN -1 ELSE 1
      startRow == IF piece.color = WHITE THEN 6 ELSE 1
      r1 == position.row + direction
      r2 == position.row + 2 * direction
  IN /\ piece # NoPiece
     /\ isValidPosition(t.row, t.col)
     /\ \/ /\ t.col = position.col
           /\ t.row = r1
           /\ b[r1][t.col] = NoPiece
        \/ /\ t.col = position.col
           /\ t.row = r2
           /\ position.row = startRow
           /\ b[r1][t.col] = NoPiece
           /\ b[r2][t.col] = NoPiece
        \/ /\ t.row = r1
           /\ (t.col = position.col - 1 \/ t.col = position.col + 1)
           /\ IF At(b, t) # NoPiece
              THEN At(b, t).color # piece.color
              ELSE isEnPassantPossible(this, position, t)

\* t is k steps from position in a direction, every square before it is
\* empty, and t is empty or holds an enemy piece (the while loop, 365-380)
inLineMovementsRaw(position, directions, b, t) ==
  /\ At(b, position) # NoPiece
  /\ isValidPosition(t.row, t.col)
  /\ \E d \in directions : \E k \in 1..7 :
       /\ t.row = position.row + k * d[1]
       /\ t.col = position.col + k * d[2]
       /\ \A j \in 1..(k - 1) :
            b[position.row + j * d[1]][position.col + j * d[2]] = NoPiece
       /\ (At(b, t) = NoPiece \/ At(b, t).color # At(b, position).color)

RookDirections == {<<-1, 0>>, <<1, 0>>, <<0, -1>>, <<0, 1>>}

BishopDirections == {<<-1, -1>>, <<-1, 1>>, <<1, -1>>, <<1, 1>>}

inRookMovesRaw(position, b, t) ==
  inLineMovementsRaw(position, RookDirections, b, t)

inBishopMovesRaw(position, b, t) ==
  inLineMovementsRaw(position, BishopDirections, b, t)

inQueenMovesRaw(position, b, t) ==
  inRookMovesRaw(position, b, t) \/ inBishopMovesRaw(position, b, t)

KnightOffsets == {<<-2, -1>>, <<-2, 1>>, <<-1, -2>>, <<-1, 2>>,
                  <<1, -2>>, <<1, 2>>, <<2, -1>>, <<2, 1>>}

inKnightMovesRaw(position, b, t) ==
  /\ At(b, position) # NoPiece
  /\ isValidPosition(t.row, t.col)
  /\ <<t.row - position.row, t.col - position.col>> \in KnightOffsets
  /\ (At(b, t) = NoPiece \/ At(b, t).color # At(b, position).color)

KingOffsets == {<<-1, -1>>, <<-1, 0>>, <<-1, 1>>, <<0, -1>>,
                <<0, 1>>, <<1, -1>>, <<1, 0>>, <<1, 1>>}

\* the eight stepping moves of calculateKingMovesRaw (lines 318-336)
inKingNormalMoves(position, b, t) ==
  /\ isValidPosition(t.row, t.col)
  /\ <<t.row - position.row, t.col - position.col>> \in KingOffsets
  /\ (At(b, t) = NoPiece \/ At(b, t).color # At(b, position).color)

\* raw moves of every piece type but the king: no recursion, never throws
inRawMovesNonKing(this, position, pieceType, b, t) ==
  CASE pieceType = PAWN -> inPawnMovesRaw(this, position, b, t)
    [] pieceType = ROOK -> inRookMovesRaw(position, b, t)
    [] pieceType = KNIGHT -> inKnightMovesRaw(position, b, t)
    [] pieceType = BISHOP -> inBishopMovesRaw(position, b, t)
    [] pieceType = QUEEN -> inQueenMovesRaw(position, b, t)
    [] OTHER -> FALSE

-----------------------------------------------------------------------------
(* Attack detection, castling precondition, king moves.                     *)
(* isSquareUnderAttack -> calculateKingMovesRaw -> isCastlingPossible ->    *)
(* isSquareUnderAttack is a recursion of the source with no depth limit.    *)
(* Every nested isSquareUnderAttack runs on this.board, so a nested call    *)
(* whose (square, color) is already being computed repeats itself for ever: *)
(* the JavaScript engine ends it with a RangeError.  `stack` is the set of  *)
(* nested calls in progress; THROW is the exception.                        *)

TT == "true"
FF == "false"
THROW == "throw"

Tri(x) == IF x THEN TT ELSE FF

RECURSIVE scanFrom(_, _, _, _, _, _)
RECURSIVE transitAttacked(_, _, _, _, _, _)

\* the move list returned by calculateRawMovesByPieceType contains t; raw is
\* [div, castle]: whether the computation threw, and the castling
\* destinations it added to a king's moves
inRawMoves(this, position, pieceType, b, raw, t) ==
  IF pieceType = KING
  THEN At(b, position) # NoPiece /\ (inKingNormalMoves(position, b, t) \/ t \in raw.castle)
  ELSE inRawMovesNonKing(this, position, pieceType, b, t)

\* does the piece on square p (not a king) reach `position`
nonKingAttacks(this, position, b, p) ==
  inRawMovesNonKing(this, p, At(b, p).type, b, position)

\* the loop of isSquareUnderAttack after the king on k: km is the result of
\* the king's calculateRawMovesByPieceType
scanAfterKing(this, position, byColor, b, stack, k, km) ==
  IF km.div THEN THROW
  ELSE IF inRawMoves(this, k, KING, b, km, position) THEN TT
  ELSE scanFrom(this, position, byColor, b, stack, Idx(k) + 1)

castlingPathEmpty(this, kingPos, rookPos) ==
  LET startCol == IF kingPos.col < rookPos.col THEN kingPos.col ELSE rookPos.col
      endCol == IF kingPos.col < rookPos.col THEN rookPos.col ELSE kingPos.col
  IN \A col \in (startCol + 1)..(endCol - 1) : this.board[kingPos.row][col] = NoPiece

castlingTransitCols(rookPos) ==
  IF rookPos.col = 7 THEN <<4, 5, 6>>
  ELSE IF rookPos.col = 0 THEN <<2, 3, 4>>
  ELSE <<>>

\* lines 152-155 without the test of rook.hasMoved
castlingPiecesUnmovedKingOnly(king, rook) ==
  /\ king # NoPiece /\ king.type = KING /\ ~king.hasMoved
  /\ rook # NoPiece /\ rook.type = ROOK

\* lines 152-155: king and rook present, of the right type, never moved
castlingPiecesUnmoved(king, rook) ==
  /\ king # NoPiece /\ king.type = KING /\ ~king.hasMoved
  /\ rook # NoPiece /\ rook.type = ROOK /\ ~rook.hasMoved

\* lines 174-176 / 181-183: an attacked transit square forbids the castling
castlingVerdict(attacked) ==
  IF attacked = THROW THEN THROW
  ELSE IF attacked = TT THEN FF
  ELSE TT

isCastlingPossible(this, kingPos, rookPos, stack) ==
  LET king == At(this.board, kingPos)
      rook == At(this.board, rookPos)
  IN IF ~castlingPiecesUnmoved(king, rook) THEN FF
     ELSE IF this.isInCheck = king.color THEN FF
     ELSE IF ~castlingPathEmpty(this, kingPos, rookPos) THEN FF
     ELSE castlingVerdict(
            transitAttacked(this, kingPos.row, castlingTransitCols(rookPos),
                            Opponent(king.color), stack, 1))

\* lines 341-347: the castling destinations added to the king's moves
kingMovesWithCastling(row, ks, qs) ==
  IF qs = THROW THEN [div |-> TRUE, castle |-> {}]
  ELSE [div |-> FALSE,
        castle |-> (IF ks = TT THEN {Pos(row, 6)} ELSE {})
                     \cup (IF qs = TT THEN {Pos(row, 2)} ELSE {})]

\* line 345, reached only when the kingside test returned
kingMovesAfterKingside(this, stack, row, ks) ==
  IF ks = THROW THEN [div |-> TRUE, castle |-> {}]
  ELSE kingMovesWithCastling(row, ks,
         isCastlingPossible(this, Pos(row, 4), Pos(row, 0), stack))

\* the castling part of calculateKingMovesRaw (lines 338-348): [div, castle],
\* div = TRUE when the computation throws
calculateKingMovesRaw(this, position, b, stack) ==
  LET piece == At(b, position)
      row == HomeRow(piece.color)
  IN IF piece = NoPiece THEN [div |-> FALSE, castle |-> {}]
     ELSE IF ~piece.hasMoved /\ position.col = 4
     THEN kingMovesAfterKingside(this, stack, row,
            isCastlingPossible(this, Pos(row, 4), Pos(row, 7), stack))
     ELSE [div |-> FALSE, castle |-> {}]

\* calculateRawMovesByPieceType(position, pieceType, board): [div, castle];
\* the list itself is inRawMoves
calculateRawMovesByPieceType(this, position, pieceType, b, stack) ==
  IF pieceType = KING
  THEN calculateKingMovesRaw(this, position, b, stack)
  ELSE [div |-> FALSE, castle |-> {}]

\* the loop of isSquareUnderAttack up to and including the first king k of
\* byColor among the squares `own` still to visit
scanKing(this, position, byColor, b, stack, own, k) ==
  IF \E p \in own : Idx(p) < Idx(k) /\ nonKingAttacks(this, position, b, p)
  THEN TT
  ELSE scanAfterKing(this, position, byColor, b, stack, k,
         calculateRawMovesByPieceType(this, k, KING, b, stack))

\* `own`: the squares still to visit that hold a piece of byColor
scanOwn(this, position, byColor, b, stack, own) ==
  IF \A p \in own : At(b, p).type # KING
  THEN Tri(\E p \in own : nonKingAttacks(this, position, b, p))
  ELSE scanKing(this, position, byColor, b, stack, own,
         CHOOSE k \in own : /\ At(b, k).type = KING
                            /\ \A y \in own : At(b, y).type = KING => Idx(k) <= Idx(y))

\* the row-major loop of isSquareUnderAttack from square index lo on: the
\* first piece that reaches `position` answers TT, a king whose move
\* computation throws before that answers THROW
scanFrom(this, position, byColor, b, stack, lo) ==
  scanOwn(this, position, byColor, b, stack,
          {p \in AllPos : At(b, p).color = byColor /\ Idx(p) >= lo})

isSquareUnderAttackIn(this, position, byColor, b, stack) ==
  scanFrom(this, position, byColor, b, stack, 0)

isSquareUnderAttack(this, position, byColor, b) ==
  isSquareUnderAttackIn(this, position, byColor, b, {})

\* one transit square answered r: stop at the first attacked (or thrown) one
transitNext(this, row, cols, opponentColor, stack, i, r) ==
  IF r = FF
  THEN transitAttacked(this, row, cols, opponentColor, stack, i + 1)
  ELSE r

\* the loops of isCastlingPossible over the king's transit squares (lines
\* 172-185): TT at the first attacked square
transitAttacked(this, row, cols, opponentColor, stack, i) ==
  IF i > Len(cols) THEN FF
  ELSE IF <<row, cols[i], opponentColor>> \in stack THEN THROW
  ELSE transitNext(this, row, cols, opponentColor, stack, i,
         isSquareUnderAttackIn(this, Pos(row, cols[i]), opponentColor, this.board,
                               stack \cup {<<row, cols[i], opponentColor>>}))

-----------------------------------------------------------------------------
(* Legality filter *)

\* lines 508-516 on the scratch board: the king is found and not attacked
kingSafeOn(this, color, kingPos, tempBoard) ==
  /\ kingPos # NoPos
  /\ isSquareUnderAttack(this, kingPos, Opponent(color), tempBoard) = FF

\* the king's square after the simulated move (lines 508-510)
kingPosAfter(piece, move, tempBoard) ==
  IF piece.type = KING THEN move ELSE findKingPosition(piece.color, tempBoard)

\* the filter callback of getValidMovesForPiece (lines 502-521): the move is
\* kept iff the king is found and not attacked on the scratch board; a
\* thrown error is caught and drops the move
moveKeepsKingSafe(this, position, move) ==
  kingSafeOn(this, At(this.board, position).color,
             kingPosAfter(At(this.board, position), move,
                          cloneBoardMove(this.board, position, move)),
             cloneBoardMove(this.board, position, move))

\* the raw moves of line 500: [div, castle]
rawMovesOf(this, position) ==
  calculateRawMovesByPieceType(this, position, At(this.board, position).type,
                               this.board, {})

\* the list returned by getValidMovesForPiece contains move (raw is the
\* result of line 500, which did not throw)
inValidMoves(this, position, raw, move) ==
  /\ At(this.board, position) # NoPiece
  /\ inRawMoves(this, position, At(this.board, position).type, this.board, raw, move)
  /\ moveKeepsKingSafe(this, position, move)

\* lines 502-521 applied to the raw moves
filterRawMoves(this, position, raw) ==
  IF raw.div THEN [div |-> TRUE, moves |-> {}]
  ELSE [div |-> FALSE,
        moves |-> {move \in AllPos : inValidMoves(this, position, raw, move)}]

\* [div, moves]: div = TRUE when the raw move computation of line 500 throws
getValidMovesForPiece(this, position) ==
  IF At(this.board, position) = NoPiece THEN [div |-> FALSE, moves |-> {}]
  ELSE filterRawMoves(this, position, rawMovesOf(this, position))

\* getValidMovesForPiece(position).length > 0, or it throws (lines 484-485)
hasValidMoveOrThrows(this, position, raw) ==
  raw.div \/ \E move \in AllPos : inValidMoves(this, position, raw, move)

-----------------------------------------------------------------------------
(* Check / checkmate detector *)

\* one iteration of the loop of checkForCheck: isInCheck after the color;
\* an error thrown by the attack test is caught and leaves the flag
attackedKingColor(this, color, kingPosition) ==
  IF kingPosition = NoPos THEN this.isInCheck
  ELSE IF isSquareUnderAttack(this, kingPosition, Opponent(color), this.board) = TT
  THEN color
  ELSE this.isInCheck

checkColor(this, color) ==
  [this EXCEPT !.isInCheck =
     attackedKingColor(this, color, findKingPosition(color, this.board))]

\* the value of isInCheck after checkForCheck
checkForCheck(this) ==
  checkColor(checkColor([this EXCEPT !.isInCheck = None], WHITE), BLACK).isInCheck

\* `hits`: the pieces of the checked color that end the loop of lines 480-491
mateVerdict(this, hits) ==
  IF hits = {} THEN [div |-> FALSE, val |-> this.isInCheck]
  ELSE IF rawMovesOf(this,
            CHOOSE x \in hits : \A y \in hits : Idx(x) <= Idx(y)).div
  THEN [div |-> TRUE, val |-> this.isCheckmate]
  ELSE [div |-> FALSE, val |-> None]

\* checkForCheckmate without line 493: isCheckmate is never set
checkForCheckmateNeverSet(this) ==
  [div |-> FALSE, val |-> None]

\* [div, val]: the value of isCheckmate after checkForCheckmate, div = TRUE
\* when getValidMovesForPiece throws before a piece with a legal move is found
checkForCheckmate(this) ==
  IF this.isInCheck = None THEN [div |-> FALSE, val |-> None]
  ELSE mateVerdict(this,
         {p \in AllPos : /\ At(this.board, p).color = this.isInCheck
                         /\ hasValidMoveOrThrows(this, p, rawMovesOf(this, p))})

-----------------------------------------------------------------------------
(* The engine as a record of its fields, and the methods that change it *)

GameTypes == {"classic", "coinToss", "dice"}

NoDiceRoll == [value |-> 0, moves |-> 0, player |-> None]

NoCoinToss == [result |-> None]

This ==
  [board |-> board, currentTurn |-> currentTurn, selectedPiece |-> selectedPiece,
   validMoves |-> validMoves, blockedMoves |-> blockedMoves,
   isInCheck |-> isInCheck, isCheckmate |-> isCheckmate, lastMove |-> lastMove,
   gameType |-> gameType, remainingMoves |-> remainingMoves,
   waitingForCoinToss |-> waitingForCoinToss,
   waitingForDiceRoll |-> waitingForDiceRoll,
   lastDiceRoll |-> lastDiceRoll, lastCoinToss |-> lastCoinToss]

\* the constructor, and resetGame: the fields of a new game of the variant
constructed(type) ==
  [board |-> createInitialBoard, currentTurn |-> WHITE, selectedPiece |-> NoPos,
   validMoves |-> {}, blockedMoves |-> {},
   isInCheck |-> None, isCheckmate |-> None, lastMove |-> NoMove,
   gameType |-> type, remainingMoves |-> 1,
   waitingForCoinToss |-> (type = "coinToss"),
   waitingForDiceRoll |-> (type = "dice"),
   lastDiceRoll |-> NoDiceRoll, lastCoinToss |-> NoCoinToss]

\* handlePostMove with the decrement of line 639 left out
postMoveAdvanceNoDecrement(this) ==
  IF this.gameType = "dice"
  THEN [this EXCEPT !.waitingForDiceRoll =
                       IF this.remainingMoves <= 0 /\ this.isInCheck = None
                       THEN TRUE ELSE @]
  ELSE IF this.gameType = "coinToss" /\ this.isInCheck = None
  THEN [this EXCEPT !.waitingForCoinToss = TRUE]
  ELSE [this EXCEPT !.currentTurn = Opponent(@)]

\* handlePostMove lines 638-647: the variant's turn progression, reading the
\* isInCheck flag as it was before the move
postMoveAdvance(this) ==
  IF this.gameType = "dice"
  THEN LET rem == this.remainingMoves - 1
       IN [this EXCEPT !.remainingMoves = rem,
                       !.waitingForDiceRoll =
                          IF rem <= 0 /\ this.isInCheck = None THEN TRUE ELSE @]
  ELSE IF this.gameType = "coinToss" /\ this.isInCheck = None
  THEN [this EXCEPT !.waitingForCoinToss = TRUE]
  ELSE [this EXCEPT !.currentTurn = Opponent(@)]

\* handlePostMove lines 656-661: a check clears both waiting flags and
\* passes the turn
postMoveCheckOverride(this) ==
  [this EXCEPT !.waitingForDiceRoll = FALSE,
               !.waitingForCoinToss = FALSE,
               !.currentTurn = Opponent(@)]

\* lines 649-651
clearSelection(this) ==
  [this EXCEPT !.selectedPiece = NoPos, !.validMoves = {}, !.blockedMoves = {}]

\* lines 655-661 with cm the result of checkForCheckmate
postMoveMate(this, cm) ==
  IF cm.div THEN [div |-> TRUE, st |-> this]
  ELSE [div |-> FALSE,
        st |-> postMoveCheckOverride([this EXCEPT !.isCheckmate = cm.val])]

\* lines 654-662 once isInCheck is recomputed
postMoveCheck(this) ==
  IF this.isInCheck = None THEN [div |-> FALSE, st |-> this]
  ELSE postMoveMate(this, checkForCheckmate(this))

\* line 653
withCheckForCheck(this) == [this EXCEPT !.isInCheck = checkForCheck(this)]

\* [div, st]: the fields after handlePostMove; div = TRUE when it throws
handlePostMove(this) ==
  postMoveCheck(withCheckForCheck(clearSelection(postMoveAdvance(this))))

\* movePiece without the test of line 568
moveGatedNoCoinToss(this) ==
  \/ this.gameType = "dice" /\ this.remainingMoves <= 0
  \/ this.gameType = "dice" /\ this.waitingForDiceRoll

\* movePiece lines 567-569
moveGated(this) ==
  \/ this.gameType = "dice" /\ this.remainingMoves <= 0
  \/ this.gameType = "coinToss" /\ this.waitingForCoinToss
  \/ this.gameType = "dice" /\ this.waitingForDiceRoll

\* the board after a castling (lines 581-588 and 597-604)
castledBoard(b, fromPiece, row, kingCol, rookCol, cornerCol) ==
  [b EXCEPT ![row] = [c \in Rows |->
     IF c = kingCol THEN [fromPiece EXCEPT !.hasMoved = TRUE]
     ELSE IF c = rookCol THEN Pc(ROOK, fromPiece.color, TRUE)
     ELSE IF c = 4 \/ c = cornerCol THEN NoPiece
     ELSE b[row][c]]]

\* what movePiece returns once handlePostMove has run
moveDone(post) == [ret |-> IF post.div THEN THROW ELSE TT, st |-> post.st]

\* lines 580-591 / 596-607 with ok the result of isCastlingPossible
castleIf(this, fromPiece, row, kingCol, rookCol, cornerCol, ok) ==
  IF ok = THROW THEN [ret |-> THROW, st |-> this]
  ELSE IF ok = FF THEN [ret |-> FF, st |-> this]
  ELSE moveDone(handlePostMove(
         [this EXCEPT !.board = castledBoard(this.board, fromPiece, row,
                                             kingCol, rookCol, cornerCol)]))

\* the castling branch of movePiece for one side (lines 579-592, 595-608)
moveCastle(this, fromPiece, kingCol, rookCol, cornerCol) ==
  castleIf(this, fromPiece, HomeRow(fromPiece.color), kingCol, rookCol, cornerCol,
           isCastlingPossible(this, Pos(HomeRow(fromPiece.color), 4),
                              Pos(HomeRow(fromPiece.color), cornerCol), {}))

\* the board after an ordinary move (lines 617-630)
movedBoard(this, from, to) ==
  LET fromPiece == At(this.board, from)
      b1 == IF fromPiece.type = PAWN /\ isEnPassantPossible(this, from, to)
            THEN [this.board EXCEPT ![from.row][to.col] = NoPiece]
            ELSE this.board
  IN [b1 EXCEPT ![to.row][to.col] = [fromPiece EXCEPT !.hasMoved = TRUE],
                ![from.row][from.col] = NoPiece]

\* the record of lines 622-626
recordedMove(from, to, fromPiece) ==
  [from |-> from, to |-> to, piece |-> fromPiece]

\* lines 611-633 with raw the result of line 500
moveIfValid(this, from, to, raw) ==
  IF raw.div THEN [ret |-> THROW, st |-> this]
  ELSE IF ~inValidMoves(this, from, raw, to) THEN [ret |-> FF, st |-> this]
  ELSE moveDone(handlePostMove(
         [this EXCEPT !.board = movedBoard(this, from, to),
                      !.lastMove = recordedMove(from, to, At(this.board, from))]))

\* movePiece lines 611-633
moveOrdinary(this, from, to) ==
  moveIfValid(this, from, to, rawMovesOf(this, from))

\* movePiece: [ret, st], ret the returned boolean or THROW
movePiece(this, from, to) ==
  IF moveGated(this) THEN [ret |-> FF, st |-> this]
  ELSE IF ~isValidPosition(from.row, from.col) THEN [ret |-> THROW, st |-> this]
  ELSE IF At(this.board, from) = NoPiece THEN [ret |-> FF, st |-> this]
  ELSE IF At(this.board, from).type = KING /\ from.col = 4 /\ to.col = 6
  THEN moveCastle(this, At(this.board, from), 6, 5, 7)
  ELSE IF At(this.board, from).type = KING /\ from.col = 4 /\ to.col = 2
  THEN moveCastle(this, At(this.board, from), 2, 3, 0)
  ELSE moveOrdinary(this, from, to)

\* rollDice without the test of waitingForDiceRoll at line 412
rollDiceNotAwaited(this, value) ==
  IF this.isInCheck # None
  THEN [ret |-> [value |-> 0, moves |-> 0, player |-> this.currentTurn], st |-> this]
  ELSE [ret |-> [value |-> value, moves |-> value,
                 player |-> IF value <= 3 THEN WHITE ELSE BLACK],
        st |-> [this EXCEPT !.lastDiceRoll = [value |-> value, moves |-> value,
                                  player |-> IF value <= 3 THEN WHITE ELSE BLACK],
                            !.currentTurn = IF value <= 3 THEN WHITE ELSE BLACK,
                            !.remainingMoves = IF value <= 3 THEN value ELSE value - 3,
                            !.waitingForDiceRoll = FALSE]]

\* rollDice granting `value` moves to Black too (line 429 without the - 3)
rollDiceNoSplit(this, value) ==
  IF this.isInCheck # None \/ ~this.waitingForDiceRoll
  THEN [ret |-> [value |-> 0, moves |-> 0, player |-> this.currentTurn], st |-> this]
  ELSE [ret |-> [value |-> value, moves |-> value,
                 player |-> IF value <= 3 THEN WHITE ELSE BLACK],
        st |-> [this EXCEPT !.lastDiceRoll = [value |-> value, moves |-> value,
                                  player |-> IF value <= 3 THEN WHITE ELSE BLACK],
                            !.currentTurn = IF value <= 3 THEN WHITE ELSE BLACK,
                            !.remainingMoves = value,
                            !.waitingForDiceRoll = FALSE]]

\* rollDice with the drawn value: [ret, st]
rollDice(this, value) ==
  IF this.isInCheck # None \/ ~this.waitingForDiceRoll
  THEN [ret |-> [value |-> 0, moves |-> 0, player |-> this.currentTurn], st |-> this]
  ELSE LET player == IF value <= 3 THEN WHITE ELSE BLACK
           moves == IF value <= 3 THEN value ELSE value - 3
           roll == [value |-> value, moves |-> moves, player |-> player]
       IN [ret |-> roll,
           st |-> [this EXCEPT !.lastDiceRoll = roll,
                               !.currentTurn = player,
                               !.remainingMoves = moves,
                               !.waitingForDiceRoll = FALSE]]

\* tossCoin with the drawn side: [ret, st]
tossCoin(this, result) ==
  IF this.isInCheck # None \/ ~this.waitingForCoinToss
  THEN [ret |-> [result |-> this.currentTurn], st |-> this]
  ELSE [ret |-> [result |-> result],
        st |-> [this EXCEPT !.lastCoinToss = [result |-> result],
                            !.currentTurn = result,
                            !.waitingForCoinToss = FALSE]]

\* getCastlingPartners (lines 124-146): [div, partners]
castlingPartnersOfKing(row, ks, qs) ==
  IF ks = THROW \/ qs = THROW THEN [div |-> TRUE, partners |-> {}]
  ELSE [div |-> FALSE,
        partners |-> (IF ks = TT THEN {Pos(row, 7)} ELSE {})
                       \cup (IF qs = TT THEN {Pos(row, 0)} ELSE {})]

castlingPartnersOfRook(row, ok) ==
  IF ok = THROW THEN [div |-> TRUE, partners |-> {}]
  ELSE [div |-> FALSE, partners |-> IF ok = TT THEN {Pos(row, 4)} ELSE {}]

getCastlingPartners(this, position) ==
  LET piece == At(this.board, position)
      row == HomeRow(piece.color)
  IN IF piece = NoPiece \/ piece.hasMoved THEN [div |-> FALSE, partners |-> {}]
     ELSE IF piece.type = KING /\ position.col = 4
     THEN castlingPartnersOfKing(row,
            isCastlingPossible(this, Pos(row, 4), Pos(row, 7), {}),
            isCastlingPossible(this, Pos(row, 4), Pos(row, 0), {}))
     ELSE IF piece.type = ROOK /\ (position.col = 0 \/ position.col = 7)
     THEN castlingPartnersOfRook(row,
            isCastlingPossible(this, Pos(row, 4), position, {}))
     ELSE [div |-> FALSE, partners |-> {}]

\* selectPiece lines 551-562 with the results of lines 552, 553 and 555;
\* validMoves and blockedMoves are kept as the sets of their squares
selectWith(this, position, legal, raw, partners) ==
  IF legal.div \/ partners.div
  THEN [ret |-> THROW, st |-> [this EXCEPT !.selectedPiece = position]]
  ELSE [ret |-> None,
        st |-> [this EXCEPT
                  !.selectedPiece = position,
                  !.validMoves = legal.moves \cup partners.partners,
                  !.blockedMoves =
                     {move \in AllPos :
                        /\ inRawMoves(this, position, At(this.board, position).type,
                                      this.board, raw, move)
                        /\ move \notin legal.moves \cup partners.partners}]]

\* selectPiece: [ret, st], ret = THROW when an exception leaves the method
selectPiece(this, position) ==
  IF ~isValidPosition(position.row, position.col) THEN [ret |-> THROW, st |-> this]
  ELSE IF At(this.board, position) = NoPiece
          \/ At(this.board, position).color # this.currentTurn
  THEN [ret |-> None, st |-> clearSelection(this)]
  ELSE selectWith(this, position, getValidMovesForPiece(this, position),
                  rawMovesOf(this, position), getCastlingPartners(this, position))

unselectPiece(this) == [ret |-> None, st |-> clearSelection(this)]

\* resetGame without the assignment of line 673
resetGameKeepsLastMove(this) ==
  [ret |-> None,
   st |-> [constructed(this.gameType) EXCEPT !.lastMove = this.lastMove]]

\* resetGame (lines 666-678): every field but gameType is assigned
resetGame(this) ==
  [ret |-> None,
   st |-> [this EXCEPT !.board = createInitialBoard,
                       !.currentTurn = WHITE,
                       !.selectedPiece = NoPos,
                       !.validMoves = {},
                       !.blockedMoves = {},
                       !.isInCheck = None,
                       !.isCheckmate = None,
                       !.lastMove = NoMove,
                       !.remainingMoves = 1,
                       !.waitingForCoinToss = (this.gameType = "coinToss"),
                       !.waitingForDiceRoll = (this.gameType = "dice"),
                       !.lastDiceRoll = NoDiceRoll,
                       !.lastCoinToss = NoCoinToss]]

\* getState (lines 524-539): the snapshot of twelve fields
getState(this) ==
  [board |-> this.board, currentTurn |-> this.currentTurn,
   selectedPiece |-> this.selectedPiece, validMoves |-> this.validMoves,
   blockedMoves |-> this.blockedMoves, isInCheck |-> this.isInCheck,
   isCheckmate |-> this.isCheckmate, lastMove |-> this.lastMove,
   gameType |-> this.gameType, remainingMoves |-> this.remainingMoves,
   waitingForCoinToss |-> this.waitingForCoinToss,
   waitingForDiceRoll |-> this.waitingForDiceRoll]

\* promotePawn lines 699-701 with cm the result of checkForCheckmate
promoteMate(this, cm) ==
  IF cm.div THEN [ret |-> THROW, st |-> this]
  ELSE [ret |-> None, st |-> [this EXCEPT !.isCheckmate = cm.val]]

\* promotePawn lines 698-701 once isInCheck is recomputed
promoteCheck(this) ==
  IF this.isInCheck = None THEN [ret |-> None, st |-> this]
  ELSE promoteMate(this, checkForCheckmate(this))

\* promotePawn: [ret, st]
promotePawn(this, position, newType) ==
  LET piece == At(this.board, position)
  IN IF ~isValidPosition(position.row, position.col) THEN [ret |-> THROW, st |-> this]
     ELSE IF piece = NoPiece \/ piece.type # PAWN THEN [ret |-> None, st |-> this]
     ELSE IF ~(\/ piece.color = WHITE /\ position.row = 0
               \/ piece.color = BLACK /\ position.row = 7)
     THEN [ret |-> None, st |-> this]
     ELSE promoteCheck(withCheckForCheck(
            [this EXCEPT !.board[position.row][position.col] =
                            Pc(newType, piece.color, TRUE)]))

-----------------------------------------------------------------------------
(* Actions: one per public method.  lastCall records the method called last, *)
(* what it returned and whether the positions it was given lie on the      *)
(* board; played records the arguments and the moved piece                 *)
(* of the last movePiece that returned true; moved is the set of the       *)
(* squares a piece has left or reached since the game began.               *)

NoPlayed == [from |-> NoPos, to |-> NoPos, piece |-> NoPiece]

\* the move is taken by the castling branch of movePiece (lines 575-609)
isCastlingCall(piece, from, to) ==
  piece.type = KING /\ from.col = 4 /\ (to.col = 6 \/ to.col = 2)

\* the squares a successful movePiece(from, to) takes a piece from or puts one on
squaresOfMove(piece, from, to) ==
  IF isCastlingCall(piece, from, to)
  THEN {Pos(HomeRow(piece.color), c) :
          c \in IF to.col = 6 THEN {4, 5, 6, 7} ELSE {0, 2, 3, 4}}
  ELSE {from, to}

Apply(st) ==
  /\ board' = st.board
  /\ currentTurn' = st.currentTurn
  /\ selectedPiece' = st.selectedPiece
  /\ validMoves' = st.validMoves
  /\ blockedMoves' = st.blockedMoves
  /\ isInCheck' = st.isInCheck
  /\ isCheckmate' = st.isCheckmate
  /\ lastMove' = st.lastMove
  /\ gameType' = st.gameType
  /\ remainingMoves' = st.remainingMoves
  /\ waitingForCoinToss' = st.waitingForCoinToss
  /\ waitingForDiceRoll' = st.waitingForDiceRoll
  /\ lastDiceRoll' = st.lastDiceRoll
  /\ lastCoinToss' = st.lastCoinToss

InitOf(types) ==
  /\ \E st \in {constructed(type) : type \in types} :
       /\ board = st.board
       /\ currentTurn = st.currentTurn
       /\ selectedPiece = st.selectedPiece
       /\ validMoves = st.validMoves
       /\ blockedMoves = st.blockedMoves
       /\ isInCheck = st.isInCheck
       /\ isCheckmate = st.isCheckmate
       /\ lastMove = st.lastMove
       /\ gameType = st.gameType
       /\ remainingMoves = st.remainingMoves
       /\ waitingForCoinToss = st.waitingForCoinToss
       /\ waitingForDiceRoll = st.waitingForDiceRoll
       /\ lastDiceRoll = st.lastDiceRoll
       /\ lastCoinToss = st.lastCoinToss
  /\ lastCall = [op |-> "constructor", ret |-> None, inRange |-> TRUE]
  /\ played = NoPlayed
  /\ moved = {}

MovePiece(from, to) ==
  \E r \in {movePiece(This, from, to)} :
     /\ Apply(r.st)
     /\ lastCall' = [op |-> "movePiece", ret |-> r.ret,
                     inRange |-> /\ isValidPosition(from.row, from.col)
                                 /\ isValidPosition(to.row, to.col)]
     /\ played' = IF r.ret = TT
                  THEN [from |-> from, to |-> to, piece |-> At(board, from)]
                  ELSE played
     /\ moved' = IF r.ret = TT
                 THEN moved \cup squaresOfMove(At(board, from), from, to)
                 ELSE moved

RollDice(value) ==
  \E r \in {rollDice(This, value)} :
     /\ Apply(r.st)
     /\ lastCall' = [op |-> "rollDice", ret |-> r.ret, inRange |-> TRUE]
     /\ UNCHANGED <<played, moved>>

TossCoin(result) ==
  \E r \in {tossCoin(This, result)} :
     /\ Apply(r.st)
     /\ lastCall' = [op |-> "tossCoin", ret |-> r.ret, inRange |-> TRUE]
     /\ UNCHANGED <<played, moved>>

SelectPiece(position) ==
  \E r \in {selectPiece(This, position)} :
     /\ Apply(r.st)
     /\ lastCall' = [op |-> "selectPiece", ret |-> r.ret,
                     inRange |-> isValidPosition(position.row, position.col)]
     /\ UNCHANGED <<played, moved>>

UnselectPiece ==
  \E r \in {unselectPiece(This)} :
     /\ Apply(r.st)
     /\ lastCall' = [op |-> "unselectPiece", ret |-> r.ret, inRange |-> TRUE]
     /\ UNCHANGED <<played, moved>>

PromotePawn(position, newType) ==
  \E r \in {promotePawn(This, position, newType)} :
     /\ Apply(r.st)
     /\ lastCall' = [op |-> "promotePawn", ret |-> r.ret,
                     inRange |-> isValidPosition(position.row, position.col)]
     /\ UNCHANGED <<played, moved>>

ResetGame ==
  \E r \in {resetGame(This)} :
     /\ Apply(r.st)
     /\ lastCall' = [op |-> "resetGame", ret |-> r.ret, inRange |-> TRUE]
     /\ played' = NoPlayed
     /\ moved' = {}

DiceValues == 1..6

Colors == {WHITE, BLACK}

Mv(r1, c1, r2, c2) == <<Pos(r1, c1), Pos(r2, c2)>>

\* The calls of the default specification, in the three variants: an opening
\* with a queen check (e2-e4, f7-f5, Qd1-h5+) and its parry g7-g6, and a call
\* from an empty square.
MovesCheck ==
  {Mv(6, 4, 4, 4), Mv(1, 5, 3, 5), Mv(7, 3, 3, 7), Mv(1, 6, 2, 6), Mv(4, 0, 3, 0)}

SelectCheck == {Pos(7, 3), Pos(1, 6)}

PromoteCheck == {<<Pos(1, 6), QUEEN>>}

Init == InitOf(GameTypes)

Next ==
  \/ \E m \in MovesCheck : MovePiece(m[1], m[2])
  \/ \E value \in DiceValues : RollDice(value)
  \/ \E result \in Colors : TossCoin(result)
  \/ \E position \in SelectCheck : SelectPiece(position)
  \/ UnselectPiece
  \/ \E pr \in PromoteCheck : PromotePawn(pr[1], pr[2])
  \/ ResetGame

Spec == Init /\ [][Next]_vars

\* The dice game with a kingside castling in reach: the opening above, then
\* Ng1-h3, Bf1-c4 and O-O.
MovesDice ==
  MovesCheck \cup {Mv(7, 6, 5, 7), Mv(7, 5, 4, 2), Mv(7, 4, 7, 6)}

InitDice == InitOf({"dice"})

NextDice ==
  \/ \E m \in MovesDice : MovePiece(m[1], m[2])
  \/ \E value \in DiceValues : RollDice(value)
  \/ ResetGame

SpecDice == InitDice /\ [][NextDice]_vars

\* The classic game with both white castlings in reach.  White clears the
\* kingside (Ng1-f3, e2-e4, Bf1-e2) and the queenside (b2-b3, Bc1-b2,
\* Nb1-c3, Qd1-e2) and castles short or long; a black pawn walks
\* d7-d5-d4-d3 and takes on e2.
MovesCastle ==
  {Mv(7, 6, 5, 5), Mv(6, 4, 4, 4), Mv(7, 5, 6, 4), Mv(7, 4, 7, 6),
   Mv(6, 1, 5, 1), Mv(7, 2, 6, 1), Mv(7, 1, 5, 2), Mv(7, 3, 6, 4),
   Mv(7, 4, 7, 2),
   Mv(1, 3, 3, 3), Mv(3, 3, 4, 3), Mv(4, 3, 5, 3), Mv(5, 3, 6, 4)}

SelectCastle == {Pos(7, 4)}

InitClassic == InitOf({"classic"})

NextCastle ==
  \/ \E m \in MovesCastle : MovePiece(m[1], m[2])
  \/ \E position \in SelectCastle : SelectPiece(position)
  \/ ResetGame

SpecCastle == InitClassic /\ [][NextCastle]_vars

\* The classic game with both white castlings in reach and pieces that leave
\* their home squares and return: the development above, the rooks
\* (Rh1-g1, Rg1-h1, Ra1-b1, Rb1-a1) and the king (Ke1-f1, Kf1-e1).
MovesUnmoved ==
  {Mv(7, 6, 5, 5), Mv(6, 4, 4, 4), Mv(7, 5, 6, 4), Mv(7, 4, 7, 6),
   Mv(7, 7, 7, 6), Mv(7, 6, 7, 7), Mv(7, 4, 7, 5), Mv(7, 5, 7, 4),
   Mv(6, 1, 5, 1), Mv(7, 2, 6, 1), Mv(7, 1, 5, 2), Mv(7, 3, 6, 4),
   Mv(7, 4, 7, 2), Mv(7, 0, 7, 1), Mv(7, 1, 7, 0)}

NextUnmoved ==
  \/ \E m \in MovesUnmoved : MovePiece(m[1], m[2])
  \/ ResetGame

SpecUnmoved == InitClassic /\ [][NextUnmoved]_vars

\* The classic game with an en-passant capture in reach: White castles
\* short (Ng1-f3, e2-e4, Bf1-e2, O-O) and pushes a2-a4-a5, Black answers
\* b7-b5 or b7-b6, White takes a5xb6.
MovesEnPassant ==
  {Mv(7, 6, 5, 5), Mv(6, 4, 4, 4), Mv(7, 5, 6, 4), Mv(7, 4, 7, 6),
   Mv(6, 0, 4, 0), Mv(4, 0, 3, 0), Mv(1, 1, 3, 1), Mv(1, 1, 2, 1),
   Mv(3, 0, 2, 1)}

NextEnPassant ==
  \/ \E m \in MovesEnPassant : MovePiece(m[1], m[2])
  \/ ResetGame

SpecEnPassant == InitClassic /\ [][NextEnPassant]_vars

\* The classic game with a pawn shielding its king from a queen: White
\* plays e2-e4, Ke1-e2, a2-a4, a4-a5; Black d7-d5, Qd8-d6, Qd6-a6+ and
\* b7-b5; White can take a5xb6 en passant.
MovesPin ==
  {Mv(6, 4, 4, 4), Mv(7, 4, 6, 4), Mv(6, 0, 4, 0), Mv(4, 0, 3, 0),
   Mv(1, 3, 3, 3), Mv(0, 3, 2, 3), Mv(2, 3, 2, 0), Mv(1, 1, 3, 1),
   Mv(3, 0, 2, 1)}

SelectPin == {Pos(3, 0)}

NextPin ==
  \/ \E m \in MovesPin : MovePiece(m[1], m[2])
  \/ \E position \in SelectPin : SelectPiece(position)
  \/ ResetGame

SpecPin == InitClassic /\ [][NextPin]_vars

\* The three variants with a checkmate in reach: f2-f3, e7-e5, g2-g4 and
\* Qd8-h4 (mate; a check that g2-g3 parries when g2-g4 was not played),
\* then the queen going back to d8 or on to e1, and a king move Ke1-f2.
MovesMate ==
  {Mv(6, 5, 5, 5), Mv(1, 4, 3, 4), Mv(6, 6, 4, 6), Mv(0, 3, 4, 7),
   Mv(6, 6, 5, 6), Mv(4, 7, 0, 3), Mv(4, 7, 7, 4), Mv(7, 4, 6, 5)}

SelectMate == {Pos(7, 4)}

NextMate ==
  \/ \E m \in MovesMate : MovePiece(m[1], m[2])
  \/ \E value \in DiceValues : RollDice(value)
  \/ \E result \in Colors : TossCoin(result)
  \/ \E position \in SelectMate : SelectPiece(position)

SpecMate == Init /\ [][NextMate]_vars

\* The three variants with calls whose positions lie outside the board,
\* next to the opening of MovesCheck.
MovesRange ==
  MovesCheck \cup {Mv(8, 0, 4, 4), Mv(0, -1, 0, 0), Mv(6, 3, 8, 3)}

SelectRange == {Pos(7, 3), Pos(8, 0), Pos(0, 8), Pos(-1, 3)}

PromoteRange == {<<Pos(1, 6), QUEEN>>, <<Pos(-1, 0), QUEEN>>, <<Pos(0, 8), QUEEN>>}

NextRange ==
  \/ \E m \in MovesRange : MovePiece(m[1], m[2])
  \/ \E value \in DiceValues : RollDice(value)
  \/ \E result \in Colors : TossCoin(result)
  \/ \E position \in SelectRange : SelectPiece(position)
  \/ \E pr \in PromoteRange : PromotePawn(pr[1], pr[2])

SpecRange == Init /\ [][NextRange]_vars

\* The classic game with both kingside castlings in reach: Ng1-f3, e2-e4,
\* Bf1-e2 and O-O for White; Ng8-f6, e7-e5, Bf8-e7 and O-O for Black.
MovesBoth ==
  {Mv(7, 6, 5, 5), Mv(6, 4, 4, 4), Mv(7, 5, 6, 4), Mv(7, 4, 7, 6),
   Mv(0, 6, 2, 5), Mv(1, 4, 3, 4), Mv(0, 5, 1, 4), Mv(0, 4, 0, 6)}

SelectBoth == {Pos(7, 4), Pos(0, 4)}

NextBoth ==
  \/ \E m \in MovesBoth : MovePiece(m[1], m[2])
  \/ \E position \in SelectBoth : SelectPiece(position)
  \/ ResetGame

SpecBoth == InitClassic /\ [][NextBoth]_vars

\* The three variants with a promotion in reach: the white h-pawn walks
\* h2-h4-h5-h6, takes on g7 and takes the bishop on f8, where it is promoted
\* to a queen (check on the king on e8) or to a knight (no check).
MovesPromote ==
  {Mv(6, 7, 4, 7), Mv(4, 7, 3, 7), Mv(3, 7, 2, 7), Mv(2, 7, 1, 6), Mv(1, 6, 0, 5)}

PromotePromote == {<<Pos(0, 5), QUEEN>>, <<Pos(0, 5), KNIGHT>>}

NextPromote ==
  \/ \E m \in MovesPromote : MovePiece(m[1], m[2])
  \/ \E value \in DiceValues : RollDice(value)
  \/ \E result \in Colors : TossCoin(result)
  \/ \E pr \in PromotePromote : PromotePawn(pr[1], pr[2])

SpecPromote == Init /\ [][NextPromote]_vars

-----------------------------------------------------------------------------
(* Properties *)

\* the step is a movePiece call that returned true
StepMoved ==
  lastCall'.op = "movePiece" /\ lastCall'.ret = TT /\ board' # board

\* the step is a call of movePiece (or leaves every variable unchanged)
StepMoveCall == lastCall'.op = "movePiece"

\* the last call was a movePiece that returned true / false
Moved == lastCall.op = "movePiece" /\ lastCall.ret = TT

Rejected == lastCall.op = "movePiece" /\ lastCall.ret = FF

\* the last successful move was a castling / the step is a castling
CastlingPlayed ==
  Moved /\ isCastlingCall(played.piece, played.from, played.to)

StepCastled ==
  StepMoved /\ isCastlingCall(played'.piece, played'.from, played'.to)

\* Chess attack geometry, written from the rules of chess: t lies on a line
\* from s in one of the directions, with nothing in between
ChessLine(b, s, t, directions) ==
  \E d \in directions : \E k \in 1..7 :
     /\ t.row = s.row + k * d[1]
     /\ t.col = s.col + k * d[2]
     /\ \A j \in 1..(k - 1) : b[s.row + j * d[1]][s.col + j * d[2]] = NoPiece

\* the piece on s attacks the square t (a pawn attacks its two forward
\* diagonal squares, whatever stands on them)
ChessAttacks(b, s, t) ==
  CASE At(b, s).type = PAWN ->
         /\ t.row - s.row = (IF At(b, s).color = WHITE THEN -1 ELSE 1)
         /\ (t.col - s.col = 1 \/ t.col - s.col = -1)
    [] At(b, s).type = KNIGHT -> <<t.row - s.row, t.col - s.col>> \in KnightOffsets
    [] At(b, s).type = KING -> <<t.row - s.row, t.col - s.col>> \in KingOffsets
    [] At(b, s).type = ROOK -> ChessLine(b, s, t, RookDirections)
    [] At(b, s).type = BISHOP -> ChessLine(b, s, t, BishopDirections)
    [] At(b, s).type = QUEEN ->
         ChessLine(b, s, t, RookDirections \cup BishopDirections)
    [] OTHER -> FALSE

ChessAttacked(b, t, byColor) ==
  \E s \in AllPos : At(b, s).color = byColor /\ ChessAttacks(b, s, t)

\* the king of the color stands on a square the other color attacks
KingExposed(b, color) ==
  ChessAttacked(b, findKingPosition(color, b), Opponent(color))

\* the squares the king stands on, crosses and reaches when it castles to toCol
KingPathCols(toCol) == IF toCol = 6 THEN {4, 5, 6} ELSE {2, 3, 4}

\* C1: every destination returned by getValidMovesForPiece, and so every
\* non-castling move accepted by movePiece, leaves the mover's own king not
\* attacked by any opponent piece once the move is applied to the board.
C1_NoSelfCheck ==
  /\ [](\A position \in AllPos :
          \A move \in getValidMovesForPiece(This, position).moves :
             ~isCastlingCall(At(board, position), position, move)
             => ~KingExposed(movedBoard(This, position, move),
                             At(board, position).color))
  /\ [][StepMoved /\ ~StepCastled
        => ~KingExposed(board', played'.piece.color)]_vars

\* C2: a castling movePiece never succeeds when the king's start square, the
\* square it crosses or its destination square is attacked by an opponent
\* piece under chess attack geometry.
C2_NoCastlingThroughCheck ==
  [][StepCastled =>
       \A c \in KingPathCols(played'.to.col) :
          ~ChessAttacked(board, Pos(HomeRow(played'.piece.color), c),
                         Opponent(played'.piece.color))]_vars

\* C3: a castling movePiece never succeeds if the king or the rook involved
\* has made any earlier move in the game, and after a successful castling
\* both the king and the rook have hasMoved = true.
C3_CastlingOnlyUnmoved ==
  [][StepCastled =>
       /\ Pos(HomeRow(played'.piece.color), 4) \notin moved
       /\ Pos(HomeRow(played'.piece.color),
              IF played'.to.col = 6 THEN 7 ELSE 0) \notin moved
       /\ board'[HomeRow(played'.piece.color)][played'.to.col]
            = Pc(KING, played'.piece.color, TRUE)
       /\ board'[HomeRow(played'.piece.color)][IF played'.to.col = 6 THEN 5 ELSE 3]
            = Pc(ROOK, played'.piece.color, TRUE)]_vars

\* White has just castled long, after the kingside rook has left h1 and
\* come back to it
C3_Witness ==
  /\ CastlingPlayed
  /\ board[7][2] = Pc(KING, WHITE, TRUE)
  /\ board[7][3] = Pc(ROOK, WHITE, TRUE)
  /\ board[7][7] = Pc(ROOK, WHITE, TRUE)

\* C4: movePiece accepts an en-passant capture only when the immediately
\* preceding successful move of the game, of any kind, was the opposing
\* pawn's double step landing beside the capturing pawn on the file of the
\* capture target.
C4_EnPassantOnlyNextPly ==
  [][(/\ StepMoved
      /\ played'.piece.type = PAWN
      /\ played'.to.col # played'.from.col
      /\ At(board, played'.to) = NoPiece)
     => /\ played.piece.type = PAWN
        /\ played.piece.color = Opponent(played'.piece.color)
        /\ played.to = Pos(played'.from.row, played'.to.col)
        /\ played.from.col = played.to.col
        /\ (played.to.row - played.from.row = 2
            \/ played.from.row - played.to.row = 2)]_vars

\* C5: in the Classic variant every successful movePiece hands the turn to
\* the other color, castling and checking moves included.
C5_ClassicAlternates ==
  [][gameType = "classic" /\ StepMoved => currentTurn' = Opponent(currentTurn)]_vars

\* C6: in every variant, after a successful movePiece that leaves a king in
\* check both waiting flags are false and the turn has passed to the other
\* color.
C6_CheckForcesAlternation ==
  [][StepMoved /\ isInCheck' # None =>
       /\ ~waitingForDiceRoll'
       /\ ~waitingForCoinToss'
       /\ currentTurn' = Opponent(currentTurn)]_vars

\* C7: in the Dice variant, after every successful movePiece,
\* waitingForDiceRoll is true exactly when remainingMoves has reached 0 and
\* no king is in check.
C7_DiceWaitsAtZero ==
  [][gameType = "dice" /\ StepMoved =>
       (waitingForDiceRoll' <=> (remainingMoves' = 0 /\ isInCheck' = None))]_vars

\* C8: in the Dice variant remainingMoves goes down by exactly 1 on every
\* successful movePiece (castling included), is unchanged by every rejected
\* movePiece, and is never negative.
C8_RemainingMoves ==
  /\ [][gameType = "dice" =>
          /\ StepMoved => remainingMoves' = remainingMoves - 1
          /\ StepMoveCall /\ lastCall'.ret = FF => remainingMoves' = remainingMoves]_vars
  /\ [](gameType = "dice" => remainingMoves >= 0)

\* a castling has just been played with the last granted move
C8_Witness ==
  /\ gameType = "dice"
  /\ Moved
  /\ played.piece.type = KING /\ played.from.col = 4 /\ played.to.col = 6
  /\ remainingMoves = 0

\* C9: in the CoinToss variant, after every successful movePiece that leaves
\* no king in check, waitingForCoinToss is true.
C9_CoinTossWaits ==
  [][gameType = "coinToss" /\ StepMoved /\ isInCheck' = None =>
       waitingForCoinToss']_vars

\* C10: movePiece returns false and changes nothing whenever the variant is
\* Dice with remainingMoves <= 0, Dice awaiting a roll, or CoinToss awaiting
\* a toss.
C10_GatedMoveRejected ==
  [][(/\ StepMoveCall
      /\ \/ gameType = "dice" /\ remainingMoves <= 0
         \/ gameType = "dice" /\ waitingForDiceRoll
         \/ gameType = "coinToss" /\ waitingForCoinToss)
     => lastCall'.ret = FF /\ UNCHANGED engine]_vars

\* a move was refused while a toss was awaited and a piece was selected
C10_Witness ==
  /\ Rejected
  /\ gameType = "coinToss" /\ waitingForCoinToss
  /\ selectedPiece # NoPos

\* C11: rollDice called while isInCheck is non-null or waitingForDiceRoll is
\* false, and tossCoin called while isInCheck is non-null or
\* waitingForCoinToss is false, change no field; rollDice then returns value
\* 0 with 0 moves and tossCoin returns the current turn.
C11_RollTossNoOp ==
  [][/\ (lastCall'.op = "rollDice" /\ (isInCheck # None \/ ~waitingForDiceRoll))
          => /\ UNCHANGED engine
             /\ lastCall'.ret.value = 0
             /\ lastCall'.ret.moves = 0
     /\ (lastCall'.op = "tossCoin" /\ (isInCheck # None \/ ~waitingForCoinToss))
          => /\ UNCHANGED engine
             /\ lastCall'.ret = [result |-> currentTurn]]_vars

\* a roll was refused in a dice game because a king is in check
C11_Witness ==
  /\ gameType = "dice"
  /\ isInCheck # None
  /\ lastCall.op = "rollDice"
  /\ lastCall.ret.value = 0

\* C12: rollDice called while awaited and with no check, for the drawn value
\* v: v <= 3 gives White v moves, v >= 4 gives Black v - 3 moves;
\* waitingForDiceRoll becomes false; board, lastMove, check state and
\* selection are unchanged.
C12_RollAssignsTurn ==
  [][(lastCall'.op = "rollDice" /\ isInCheck = None /\ waitingForDiceRoll)
     => /\ lastCall'.ret.value \in 1..6
        /\ IF lastCall'.ret.value <= 3
           THEN currentTurn' = WHITE /\ remainingMoves' = lastCall'.ret.value
           ELSE currentTurn' = BLACK /\ remainingMoves' = lastCall'.ret.value - 3
        /\ ~waitingForDiceRoll'
        /\ UNCHANGED <<board, lastMove, isInCheck, isCheckmate,
                       selectedPiece, validMoves, blockedMoves>>]_vars

\* a 5 was rolled in the middle of a game: Black has 2 moves
C12_Witness ==
  /\ lastCall.op = "rollDice"
  /\ lastCall.ret.value = 5
  /\ currentTurn = BLACK
  /\ remainingMoves = 2
  /\ board # createInitialBoard

\* C13: resetGame after any sequence of operations yields a getState
\* snapshot equal to that of a freshly constructed game of the same variant:
\* initial board with every hasMoved false, White to move, remainingMoves 1,
\* waitingForCoinToss iff coinToss, waitingForDiceRoll iff dice, no check, no
\* checkmate, no lastMove, empty selection.
C13_ResetEqualsFresh ==
  [][lastCall'.op = "resetGame" =>
       /\ gameType' = gameType
       /\ getState(This') = getState(constructed(gameType))
       /\ board' = createInitialBoard
       /\ \A p \in AllPos : ~At(board', p).hasMoved
       /\ currentTurn' = WHITE
       /\ remainingMoves' = 1
       /\ waitingForCoinToss' = (gameType = "coinToss")
       /\ waitingForDiceRoll' = (gameType = "dice")
       /\ isInCheck' = None /\ isCheckmate' = None
       /\ lastMove' = NoMove
       /\ selectedPiece' = NoPos /\ validMoves' = {} /\ blockedMoves' = {}]_vars

\* a game has just been reset
C13_Witness ==
  /\ lastCall.op = "resetGame"
  /\ getState(This) = getState(constructed(gameType))

\* C14: in every reachable state isCheckmate is either null or equal to
\* isInCheck.
C14_MateImpliesCheck ==
  isCheckmate = None \/ isCheckmate = isInCheck

\* the color c has a piece with a legal move
HasLegalMove(this, c) ==
  \E p \in AllPos :
     /\ At(this.board, p).color = c
     /\ getValidMovesForPiece(this, p).moves # {}

\* C15: whenever a successful movePiece leaves color c in check, isCheckmate
\* is c right after the call if no piece of c has a legal move, and null if
\* some piece of c has one.
C15_MateIffNoLegalMove ==
  [][StepMoved /\ isInCheck' # None =>
       isCheckmate' = IF HasLegalMove(This', isInCheck') THEN None ELSE isInCheck']_vars

\* White has just been mated by the queen on h4
C15_Witness ==
  /\ Moved
  /\ played.to = Pos(4, 7)
  /\ isInCheck = WHITE
  /\ isCheckmate = WHITE
  /\ ~HasLegalMove(This, WHITE)

\* C16: once isCheckmate is non-null no movePiece call returns true, and the
\* board, currentTurn and isCheckmate stay as they are until resetGame is
\* called.
C16_CheckmateTerminal ==
  [][isCheckmate # None /\ lastCall'.op # "resetGame" =>
       /\ ~StepMoved
       /\ UNCHANGED <<board, currentTurn, isCheckmate>>]_vars

\* C17: after every successful movePiece(from, to), castling included,
\* lastMove holds that call's from and to and a copy of the moved piece as
\* it was before the move.
C17_LastMoveIsLatest ==
  [][StepMoved =>
       lastMove' = [from |-> played'.from, to |-> played'.to,
                    piece |-> At(board, played'.from)]]_vars

\* C18: selectPiece, movePiece and promotePawn called with a position whose
\* row or col lies outside 0..7 reject the call (cleared selection, false,
\* or no-op) without raising and without changing the board or turn state.
C18_OutOfRangeRejected ==
  [][(/\ lastCall'.op \in {"selectPiece", "movePiece", "promotePawn"}
      /\ ~lastCall'.inRange)
     => /\ lastCall'.ret # THROW
        /\ lastCall'.op = "movePiece" => lastCall'.ret = FF
        /\ lastCall'.op = "selectPiece" => selectedPiece' = NoPos
        /\ UNCHANGED <<board, currentTurn, remainingMoves, waitingForCoinToss,
                       waitingForDiceRoll, isInCheck, isCheckmate, lastMove>>]_vars

\* C19: every public operation terminates in every reachable position: the
\* call chain isSquareUnderAttack -> calculateKingMovesRaw ->
\* isCastlingPossible -> isSquareUnderAttack reaches a result after a bounded
\* number of nested calls, so no call ends in the RangeError of an exhausted
\* call stack.
C19_AttackDetectionTerminates ==
  /\ lastCall.ret # THROW
  /\ \A c \in Colors : \A p \in AllPos :
        isSquareUnderAttack(This, p, c, board) # THROW

\* the squares that hold a king of the color
KingsOf(color) ==
  {p \in AllPos : At(board, p).type = KING /\ At(board, p).color = color}

\* C20: in every reachable state the board holds exactly one White king and
\* exactly one Black king: no accepted move captures a king.
C20_OneKingEach ==
  Cardinality(KingsOf(WHITE)) = 1 /\ Cardinality(KingsOf(BLACK)) = 1

\* movePiece is refused by the gate of the variant (lines 567-569)
GateClosed ==
  \/ gameType = "dice" /\ (remainingMoves <= 0 \/ waitingForDiceRoll)
  \/ gameType = "coinToss" /\ waitingForCoinToss

\* the draw that would open the gate changes nothing (lines 412 and 441)
DrawRefused ==
  \/ gameType = "dice" /\ (isInCheck # None \/ ~waitingForDiceRoll)
  \/ gameType = "coinToss" /\ (isInCheck # None \/ ~waitingForCoinToss)

\* C21: in the Dice and CoinToss variants no reachable state with isCheckmate
\* null is stuck, that is, has movePiece refused by the variant gate while
\* the matching rollDice or tossCoin is a no-op.
C21_NeverStuck ==
  isCheckmate = None => ~(GateClosed /\ DrawRefused)

\* the from square of the call holds a piece of the color not on turn
OffTurn(from) ==
  At(board, from) # NoPiece /\ At(board, from).color # currentTurn

\* C22: in every variant movePiece returns true only when the piece on the
\* from square has the color held by currentTurn at the time of the call; a
\* move of a piece of the other color is rejected with the state unchanged.
C22_OnlyTurnHolderMoves ==
  /\ [][lastCall'.op = "movePiece" /\ lastCall'.ret = TT =>
          played'.piece.color = currentTurn]_vars
  /\ [](\A m \in MovesCheck :
          OffTurn(m[1]) => movePiece(This, m[1], m[2]) = [ret |-> FF, st |-> This])

\* C23: in every reachable state, the states reached through promotePawn
\* included, a non-null isInCheck comes with waitingForDiceRoll and
\* waitingForCoinToss both false.
C23_CheckSuppressesDraw ==
  isInCheck # None => ~waitingForDiceRoll /\ ~waitingForCoinToss

====
